---- MODULE Spec2Model ----
(***************************************************************************)
(* State-machine model of coverage-http (src/src/main.rs): the main thread *)
(* (startup, the input loop, run_coverage, the shutdown tail), the Ctrl+C  *)
(* handler thread with its forced-exit timer threads, and the HTTP server  *)
(* thread with its monitor task and its own signal listener.               *)
(*                                                                         *)
(* Strings are sequences of one-character strings.  Time is discrete: one  *)
(* tick is 100 ms, so the monitor's sleep is 1 tick and the forced-exit    *)
(* timer's sleep is 20 ticks.                                              *)
(*                                                                         *)
(* A println! or eprintln! whose write fails panics, and so do expect,     *)
(* unwrap and thread::spawn on an error.  A panic of the main thread ends  *)
(* the process (exit code 101); a panic of another thread or of a task     *)
(* ends only that thread or task.                                          *)
(***************************************************************************)
EXTENDS Integers, Sequences, FiniteSets, TLC

\* ------------------------------------------------------------------ bounds

\* Lines the operator types during one run (read_line calls that return Ok).
MaxIter == 2

\* Interrupt signals delivered during one run.
MaxSignals == 2

\* Lines typed and interrupt signals delivered during one run, together.
MaxEvents == 2

\* ------------------------------------------------------- program constants

\* thread::sleep(Duration::from_secs(2)), in ticks of 100 ms.
GracePeriod == 20

\* tokio::time::sleep(Duration::from_millis(100)), in ticks of 100 ms.
PollInterval == 1

\* The clocks that measure the time since the first interrupt and the time
\* main has waited in the joins saturate here.
ElapsedCap == GracePeriod + PollInterval + 1

\* The clock that measures the time the monitor task has slept with the flag
\* inactive saturates here.
UnseenCap == PollInterval + 1

\* ------------------------------------------------------------------ strings

LF == "\n"

\* The characters of the model's strings that char::is_whitespace accepts.
WhiteSpace == {" ", LF, "\t"}

RECURSIVE TrimStart(_)
TrimStart(s) ==
    IF s = <<>> THEN s
    ELSE IF Head(s) \in WhiteSpace THEN TrimStart(Tail(s)) ELSE s

RECURSIVE TrimEnd(_)
TrimEnd(s) ==
    IF s = <<>> THEN s
    ELSE IF s[Len(s)] \in WhiteSpace THEN TrimEnd(SubSeq(s, 1, Len(s) - 1))
    ELSE s

\* str::trim
Trim(s) == TrimEnd(TrimStart(s))

ToLowerChar(c) ==
    CASE c = "E" -> "e"
      [] c = "X" -> "x"
      [] c = "I" -> "i"
      [] c = "T" -> "t"
      [] c = "A" -> "a"
      [] OTHER -> c

\* str::to_lowercase
ToLower(s) == [i \in 1..Len(s) |-> ToLowerChar(s[i])]

\* The literal "exit" of the loop's comparisons.
ExitKeyword == <<"e", "x", "i", "t">>

\* String::from(".")
DefaultTestPath == <<".">>

\* The text of the format! before the {}.
CmdPrefix == <<
    "p", "y", "t", "h", "o", "n", " ", "-", "m", " ", "c", "o", "v", "e", "r",
    "a", "g", "e", " ", "r", "u", "n", " ", "-", "m", " ", "p", "y", "t", "e",
    "s", "t", " " >>

\* The text of the format! after the {}.
CmdSuffix == <<
    " ", "&", "&", " ", "p", "y", "t", "h", "o", "n", " ", "-", "m", " ", "c",
    "o", "v", "e", "r", "a", "g", "e", " ", "h", "t", "m", "l" >>

\* format!("python -m coverage run -m pytest {} && python -m coverage html", p)
FormatCmd(path) == CmdPrefix \o path \o CmdSuffix

\* The first index >= i at which "&&" starts in s, or 0.
RECURSIVE FindSep(_, _)
FindSep(s, i) ==
    IF i + 1 > Len(s) THEN 0
    ELSE IF s[i] = "&" /\ s[i + 1] = "&" THEN i
    ELSE FindSep(s, i + 1)

\* python_cmd.split("&&").collect()
RECURSIVE SplitCmd(_)
SplitCmd(s) ==
    LET k == FindSep(s, 1)
    IN  IF k = 0 THEN <<s>>
        ELSE <<SubSeq(s, 1, k - 1)>> \o SplitCmd(SubSeq(s, k + 2, Len(s)))

\* The length of the longest prefix of s without white space.
RECURSIVE WordLen(_)
WordLen(s) ==
    IF s = <<>> \/ Head(s) \in WhiteSpace THEN 0 ELSE 1 + WordLen(Tail(s))

\* trimmed_cmd.split_whitespace().collect()
RECURSIVE SplitWhitespace(_)
SplitWhitespace(s) ==
    LET t == TrimStart(s)
        n == WordLen(t)
    IN  IF t = <<>> THEN <<>>
        ELSE <<SubSeq(t, 1, n)>> \o SplitWhitespace(SubSeq(t, n + 1, Len(t)))

\* parts.next().unwrap_or("")
Program(cmd) ==
    LET parts == SplitWhitespace(cmd)
    IN  IF parts = <<>> THEN <<>> ELSE Head(parts)

\* The steps run_coverage loops over for python_cmd, each trimmed.
CmdSteps(python_cmd) ==
    LET raw == SplitCmd(python_cmd)
    IN  [i \in 1..Len(raw) |-> Trim(raw[i])]

\* The steps of the command that main builds for the test path.
CmdParts(path) == CmdSteps(FormatCmd(path))

\* ------------------------------------------------------------------- inputs

\* What read_line can leave in the buffer: a line with its line feed, or
\* nothing at the end of the input stream.
InputExit  == <<" ", "E", "x", "i", "t", LF>>
InputEmpty == <<LF>>
InputA     == <<" ", "a", LF>>
InputAmp   == <<"&", "&", LF>>
InputEof   == <<>>

Inputs == {InputExit, InputEmpty, InputA, InputAmp, InputEof}

\* How Command::status() can end: the child exits with 0, it exits with
\* another code, or status() returns an Err ("spawn_error"): the child cannot
\* be started (always so for an empty program) or the wait for it fails.
StatusOutcomes(program) ==
    IF program = <<>> THEN {"spawn_error"}
    ELSE {"success", "nonzero", "spawn_error"}

\* --------------------------------------------------------------------- state

VARIABLES
    alive,            \* the process has not terminated
    exitPath,         \* how it terminated
    pc,               \* the main thread's position
    running,          \* the AtomicBool
    target,           \* current_test_path
    cmd,              \* python_cmd of the iteration, empty outside of it
    inputs,           \* the buffers read_line has filled so far, in order
    readKind,         \* how the latest read_line ended
    rcIdx,            \* run_coverage: the index of the step to execute
    rcLog,            \* run_coverage: the steps executed, with their status
    rcResult,         \* run_coverage: how the invocation ended
    runs,             \* invocations of run_coverage so far
    handlerInstalled, \* ctrlc::set_handler has returned Ok
    handlerDead,      \* the handler thread has panicked
    sigCount,         \* interrupt signals delivered so far
    pending,          \* signals queued for the handler thread, not served
    timers,           \* ticks each live forced-exit thread has left to sleep,
                      \* in the order of their spawns
    elapsed,          \* ticks since the first interrupt was delivered
    unseen,           \* ticks the monitor task has slept with the flag inactive
    joinWait,         \* ticks main has waited in the joins while no interrupt
                      \* has been delivered (0 once one has)
    deactivateCalls,  \* running.store(false) calls so far
    srv,              \* the server thread
    srvSignalled,     \* the server's own signal listener has seen a signal
    srvFailed,        \* server.await has returned an Err
    bindFailAt,       \* the value of runs when bind failed, or -1
    watcher,          \* the monitor task
    sleepRem          \* ticks the monitor task has left to sleep

vars == <<alive, exitPath, pc, running, target, cmd, inputs, readKind, rcIdx,
          rcLog, rcResult, runs, handlerInstalled, handlerDead, sigCount,
          pending, timers, elapsed, unseen, joinWait, deactivateCalls, srv,
          srvSignalled, srvFailed, bindFailAt, watcher, sleepRem>>

mainVars    == <<pc, target, cmd, inputs, readKind, rcIdx, rcLog, rcResult, runs>>
flagVars    == <<running, deactivateCalls>>
handlerVars == <<handlerInstalled, handlerDead, sigCount>>
serverVars  == <<srv, srvSignalled, srvFailed, bindFailAt, watcher>>
exitVars    == <<alive, exitPath>>

\* What lives only as long as the process: the queue of the handler thread,
\* the sleeps of its threads and tasks, and the clocks.
liveVars    == <<pending, timers, sleepRem, elapsed, unseen, joinWait>>

\* The state when main is entered.
Init ==
    /\ alive = TRUE
    /\ exitPath = "none"
    /\ pc = "bootstrap"
    /\ running = TRUE
    /\ target = DefaultTestPath
    /\ cmd = <<>>
    /\ inputs = <<>>
    /\ readKind = "none"
    /\ rcIdx = 0
    /\ rcLog = <<>>
    /\ rcResult = "none"
    /\ runs = 0
    /\ handlerInstalled = FALSE
    /\ handlerDead = FALSE
    /\ sigCount = 0
    /\ pending = 0
    /\ timers = <<>>
    /\ elapsed = 0
    /\ unseen = 0
    /\ joinWait = 0
    /\ deactivateCalls = 0
    /\ srv = "unspawned"
    /\ srvSignalled = FALSE
    /\ srvFailed = FALSE
    /\ bindFailAt = -1
    /\ watcher = "none"
    /\ sleepRem = 0

\* The process ends: every thread ends with it, sleeping or not, and the
\* clocks stop.
ProcessEnds(path) ==
    /\ alive' = FALSE
    /\ exitPath' = path
    /\ pending' = 0
    /\ timers' = <<>>
    /\ sleepRem' = 0
    /\ elapsed' = 0
    /\ unseen' = 0
    /\ joinWait' = 0

\* The main thread goes on at position next.
MainGoes(next) ==
    /\ pc' = next
    /\ UNCHANGED exitVars
    /\ UNCHANGED liveVars

\* The main thread leaves main and the process ends with it: "main_ok" is
\* the return of Ok(()), "main_err" the return of an Err through a ?, and
\* "panic" a panic of the main thread (println!, eprintln!, expect,
\* thread::spawn), which ends the process with exit code 101.
MainEnds(path) ==
    /\ pc' = "exited"
    /\ ProcessEnds(path)

\* ------------------------------------------------------------ main: startup

\* The interpreter lookup and its println!, the htmlcov directory and its
\* index.html (each with a println! when created), the default test path and
\* the flag.  An error of ensure_dir_exists or ensure_index_html_exists leaves
\* main through the ? operator; a println! whose write fails panics.
Bootstrap ==
    /\ alive
    /\ pc = "bootstrap"
    /\ \E outcome \in {"ok", "main_err", "panic"} :
          IF outcome = "ok" THEN MainGoes("set_handler") ELSE MainEnds(outcome)
    /\ UNCHANGED <<target, cmd, inputs, readKind, rcIdx, rcLog, rcResult, runs>>
    /\ UNCHANGED flagVars
    /\ UNCHANGED handlerVars
    /\ UNCHANGED serverVars

\* Mutant of HandlerSet: set_handler returns without a handler installed.
HandlerSet_NotInstalled == FALSE

\* Whether the handler is installed once ctrlc::set_handler has returned Ok.
HandlerSet == TRUE

\* ctrlc::set_handler(...).expect(...): the handler is installed, or
\* set_handler returns an Err and the expect panics.
SetHandler ==
    /\ alive
    /\ pc = "set_handler"
    /\ \E ok \in BOOLEAN :
          IF ok
          THEN /\ MainGoes("spawn_server")
               /\ handlerInstalled' = HandlerSet
          ELSE /\ MainEnds("panic")
               /\ UNCHANGED handlerInstalled
    /\ UNCHANGED <<target, cmd, inputs, readKind, rcIdx, rcLog, rcResult, runs>>
    /\ UNCHANGED flagVars
    /\ UNCHANGED <<handlerDead, sigCount>>
    /\ UNCHANGED serverVars

\* thread::spawn of the server thread, then the three banner lines.  The
\* spawn panics when the thread cannot be created, a println! when its write
\* fails (the server thread is started by then).
SpawnServer ==
    /\ alive
    /\ pc = "spawn_server"
    /\ \E outcome \in {"ok", "spawn_panic", "print_panic"} :
          /\ srv' = IF outcome = "spawn_panic" THEN srv ELSE "starting"
          /\ IF outcome = "ok" THEN MainGoes("loop_check") ELSE MainEnds("panic")
    /\ UNCHANGED <<target, cmd, inputs, readKind, rcIdx, rcLog, rcResult, runs>>
    /\ UNCHANGED flagVars
    /\ UNCHANGED handlerVars
    /\ UNCHANGED <<srvSignalled, srvFailed, bindFailAt, watcher>>

\* ------------------------------------------------------- main: the input loop

\* Mutant of LoopContinues: the loop does not read the flag.
LoopContinues_Ignore(flag) == TRUE

\* The condition of while running.load(Ordering::SeqCst).
LoopContinues(flag) == flag

\* The loop condition.
LoopCheck ==
    /\ alive
    /\ pc = "loop_check"
    /\ MainGoes(IF LoopContinues(running) THEN "prompt" ELSE "shutdown")
    /\ UNCHANGED <<target, cmd, inputs, readKind, rcIdx, rcLog, rcResult, runs>>
    /\ UNCHANGED flagVars
    /\ UNCHANGED handlerVars
    /\ UNCHANGED serverVars

\* print!("> "); io::stdout().flush()?;  The print! only fills the line
\* buffer; a flush error leaves main through the ?.
Prompt ==
    /\ alive
    /\ pc = "prompt"
    /\ \E ok \in BOOLEAN :
          IF ok THEN MainGoes("read") ELSE MainEnds("main_err")
    /\ UNCHANGED <<target, cmd, inputs, readKind, rcIdx, rcLog, rcResult, runs>>
    /\ UNCHANGED flagVars
    /\ UNCHANGED handlerVars
    /\ UNCHANGED serverVars

\* Mutant of BreaksLoop: the comparison without to_lowercase.
BreaksLoop_CaseSensitive(isErr, input) ==
    isErr \/ Trim(input) = ExitKeyword

\* read_line(&mut input).is_err() || input.trim().to_lowercase() == "exit"
BreaksLoop(isErr, input) ==
    isErr \/ ToLower(Trim(input)) = ExitKeyword

\* The condition of the update of lines 232-236, under which line 235 prints.
UpdatesTestPath(input) ==
    Trim(input) # <<>> /\ ToLower(Trim(input)) # ExitKeyword

\* Mutant of UpdatedTestPath: the buffer is stored without trim.
UpdatedTestPath_NoTrim(current, input) ==
    IF Trim(input) # <<>> /\ ToLower(Trim(input)) # ExitKeyword
    THEN input
    ELSE current

\* The test path after the update of lines 232-236.
UpdatedTestPath(current, input) ==
    LET trimmed_input == Trim(input)
    IN  IF trimmed_input # <<>> /\ ToLower(trimmed_input) # ExitKeyword
        THEN trimmed_input
        ELSE current

\* python_cmd: the format! of lines 239-242, after the update.
BuiltCmd(current, input) == FormatCmd(UpdatedTestPath(current, input))

\* read_line returns an error (isErr, the buffer empty) or fills the buffer
\* with input; then either the break, or the update of the test path with its
\* println!, the format! and the call of run_coverage up to its first
\* println!.  A println! whose write fails panics: at line 235 the test path
\* is updated and run_coverage is not called, at line 42 it has been called.
ReadLine ==
    /\ alive
    /\ pc = "read"
    /\ \E isErr \in BOOLEAN, input \in Inputs :
          /\ isErr => input = <<>>
          /\ ~isErr => (Len(inputs) < MaxIter /\ Len(inputs) + sigCount < MaxEvents)
          /\ inputs' = IF isErr THEN inputs ELSE Append(inputs, input)
          /\ readKind' = IF isErr THEN "error"
                         ELSE IF input = <<>> THEN "eof" ELSE "line"
          /\ IF BreaksLoop(isErr, input)
             THEN /\ MainGoes("shutdown")
                  /\ UNCHANGED <<target, cmd, rcIdx, rcLog, rcResult, runs>>
             ELSE /\ target' = UpdatedTestPath(target, input)
                  /\ \E outcome \in {"ok", "update_panic", "run_panic"} :
                        /\ outcome = "update_panic" => UpdatesTestPath(input)
                        /\ IF outcome = "update_panic"
                           THEN UNCHANGED <<cmd, runs>>
                           ELSE /\ cmd' = BuiltCmd(target, input)
                                /\ runs' = runs + 1
                        /\ IF outcome = "ok"
                           THEN /\ MainGoes("run")
                                /\ rcIdx' = 1
                                /\ rcLog' = <<>>
                                /\ rcResult' = "none"
                           ELSE /\ MainEnds("panic")
                                /\ UNCHANGED <<rcIdx, rcLog, rcResult>>
    /\ UNCHANGED flagVars
    /\ UNCHANGED handlerVars
    /\ UNCHANGED serverVars

\* Mutant of AfterStep: the check of status.success() is missing.
AfterStep_IgnoresFailure(status, idx, n) ==
    IF status = "spawn_error" THEN [pc |-> "report", idx |-> idx, result |-> "error"]
    ELSE IF idx < n THEN [pc |-> "run", idx |-> idx + 1, result |-> "none"]
    ELSE [pc |-> "report", idx |-> idx, result |-> "ok"]

\* What run_coverage does after a step of n has ended with status:
\* the ? on status(), the return on !status.success(), the next step, or the
\* end of the loop.
AfterStep(status, idx, n) ==
    IF status = "spawn_error" THEN [pc |-> "report", idx |-> idx, result |-> "error"]
    ELSE IF status # "success" THEN [pc |-> "report", idx |-> idx, result |-> "failed"]
    ELSE IF idx < n THEN [pc |-> "run", idx |-> idx + 1, result |-> "none"]
    ELSE [pc |-> "report", idx |-> idx, result |-> "ok"]

\* The first half of an iteration of run_coverage's for loop: the step is
\* announced (a println! that panics when its write fails), and
\* Command::status() starts the program: when it cannot, run_coverage returns
\* the Err through the ?; when it can, the main thread waits for the child.
ExecStart ==
    /\ alive
    /\ pc = "run"
    /\ LET parts == CmdSteps(cmd)
           outcomes == StatusOutcomes(Program(parts[rcIdx]))
       IN  \E outcome \in {"print_panic", "spawn_error", "started"} :
              /\ outcome = "started" => outcomes # {"spawn_error"}
              /\ CASE outcome = "print_panic" ->
                        /\ MainEnds("panic")
                        /\ UNCHANGED <<rcIdx, rcLog, rcResult>>
                   [] outcome = "started" ->
                        /\ MainGoes("wait")
                        /\ UNCHANGED <<rcIdx, rcLog, rcResult>>
                   [] outcome = "spawn_error" ->
                        LET next == AfterStep("spawn_error", rcIdx, Len(parts))
                        IN  /\ rcLog' = Append(rcLog, [idx |-> rcIdx,
                                                       status |-> "spawn_error"])
                            /\ MainGoes(next.pc)
                            /\ rcIdx' = next.idx
                            /\ rcResult' = next.result
    /\ UNCHANGED <<target, cmd, inputs, readKind, runs>>
    /\ UNCHANGED flagVars
    /\ UNCHANGED handlerVars
    /\ UNCHANGED serverVars

\* The second half: the child exits and Command::status() returns its
\* status, or the wait fails and it returns an Err, which leaves run_coverage
\* through the ?; then the next step, or the return of run_coverage after the
\* println! of line 61 or line 66, which panics when its write fails.
ExecWait ==
    /\ alive
    /\ pc = "wait"
    /\ LET parts == CmdSteps(cmd)
           outcomes == StatusOutcomes(Program(parts[rcIdx]))
       IN  \E status \in outcomes, printed \in BOOLEAN :
              LET next == AfterStep(status, rcIdx, Len(parts))
              IN  /\ (next.pc = "run" \/ status = "spawn_error") => printed
                  /\ rcLog' = Append(rcLog, [idx |-> rcIdx, status |-> status])
                  /\ IF printed
                     THEN /\ MainGoes(next.pc)
                          /\ rcIdx' = next.idx
                          /\ rcResult' = next.result
                     ELSE /\ MainEnds("panic")
                          /\ UNCHANGED <<rcIdx, rcResult>>
    /\ UNCHANGED <<target, cmd, inputs, readKind, runs>>
    /\ UNCHANGED flagVars
    /\ UNCHANGED handlerVars
    /\ UNCHANGED serverVars

\* Where the loop goes when run_coverage has returned result: an Err is
\* printed, and the loop goes on in every case.
AfterRun(result) == "loop_check"

\* run_coverage has returned: if let Err(e) = ... { eprintln! }, then the
\* "Current test path" println! and the end of the loop body.  Either write
\* panics when it fails.
Report ==
    /\ alive
    /\ pc = "report"
    /\ \E printed \in BOOLEAN :
          IF printed
          THEN /\ MainGoes(AfterRun(rcResult))
               /\ rcIdx' = 0
               /\ rcLog' = <<>>
               /\ rcResult' = "none"
               /\ cmd' = <<>>
          ELSE /\ MainEnds("panic")
               /\ UNCHANGED <<rcIdx, rcLog, rcResult, cmd>>
    /\ UNCHANGED <<target, inputs, readKind, runs>>
    /\ UNCHANGED flagVars
    /\ UNCHANGED handlerVars
    /\ UNCHANGED serverVars

\* ------------------------------------------------------ main: shutdown tail

\* Mutant of FlagAfterLoop: the flag is flipped instead of cleared.
FlagAfterLoop_Toggle(flag) == ~flag

\* The flag after running.store(false, Ordering::SeqCst) of line 252.
FlagAfterLoop(flag) == FALSE

\* The store after the loop, then thread::spawn of the join thread, which
\* panics when the thread cannot be created.
ShutdownStore ==
    /\ alive
    /\ pc = "shutdown"
    /\ running' = FlagAfterLoop(running)
    /\ deactivateCalls' = deactivateCalls + 1
    /\ \E spawned \in BOOLEAN :
          IF spawned THEN MainGoes("join") ELSE MainEnds("panic")
    /\ UNCHANGED <<target, cmd, inputs, readKind, rcIdx, rcLog, rcResult, runs>>
    /\ UNCHANGED handlerVars
    /\ UNCHANGED serverVars

\* The join thread joins the server thread and main joins the join thread:
\* both joins return when the server thread has ended.  When the server
\* thread has panicked the join thread prints with eprintln!; when that write
\* fails the join thread panics, main's join returns Err and main prints
\* with eprintln!, which panics when its write fails.
Join ==
    /\ alive
    /\ pc = "join"
    /\ srv \in {"done", "panicked"}
    /\ \E reported \in BOOLEAN :
          /\ srv = "done" => reported
          /\ IF reported THEN MainGoes("farewell") ELSE MainEnds("panic")
    /\ UNCHANGED <<target, cmd, inputs, readKind, rcIdx, rcLog, rcResult, runs>>
    /\ UNCHANGED flagVars
    /\ UNCHANGED handlerVars
    /\ UNCHANGED serverVars

\* println!("Goodbye!"); Ok(())  The println! panics when its write fails.
Farewell ==
    /\ alive
    /\ pc = "farewell"
    /\ \E printed \in BOOLEAN :
          MainEnds(IF printed THEN "main_ok" ELSE "panic")
    /\ UNCHANGED <<target, cmd, inputs, readKind, rcIdx, rcLog, rcResult, runs>>
    /\ UNCHANGED flagVars
    /\ UNCHANGED handlerVars
    /\ UNCHANGED serverVars

\* ------------------------------------------- interrupts and the forced exit

\* A running HttpServer listens for signals as well (its signal handling is
\* not disabled), chained to the handler installed before it; once its stop
\* has been requested it does not look at signals any more.
ServerSeesSignal(server, task) == server = "serving" /\ task # "stopping"

\* An interrupt signal (SIGINT) is delivered to the process.  Before
\* set_handler has returned the signal has its default disposition and ends
\* the process; afterwards it is queued for the handler thread.
Interrupt ==
    /\ alive
    /\ sigCount < MaxSignals
    /\ Len(inputs) + sigCount < MaxEvents
    /\ sigCount' = sigCount + 1
    /\ IF handlerInstalled
       THEN /\ pending' = pending + 1
            /\ joinWait' = 0
            /\ srvSignalled' = (srvSignalled \/ ServerSeesSignal(srv, watcher))
            /\ UNCHANGED <<timers, sleepRem, elapsed, unseen>>
            /\ UNCHANGED exitVars
       ELSE /\ ProcessEnds("killed")
            /\ UNCHANGED srvSignalled
    /\ UNCHANGED <<handlerInstalled, handlerDead>>
    /\ UNCHANGED <<srv, srvFailed, bindFailAt, watcher>>
    /\ UNCHANGED flagVars
    /\ UNCHANGED mainVars

\* Mutant of FlagAfterHandler: the handler flips the flag.
FlagAfterHandler_Toggle(flag) == ~flag

\* The flag after r.store(false, Ordering::SeqCst) of line 195.
FlagAfterHandler(flag) == FALSE

\* Mutant of TimersAfterArm: the new forced-exit thread replaces the others.
TimersAfterArm_Rearm(ts, sleepTicks) == <<sleepTicks>>

\* The forced-exit threads once one more, which sleeps for sleepTicks, has
\* been spawned.
TimersAfterArm(ts, sleepTicks) == Append(ts, sleepTicks)

\* The handler closure, once per queued signal: the println!, r.store(false)
\* and the spawn of a thread that sleeps for the grace period.  When the write
\* of the println! fails the handler thread panics before the store; when the
\* thread cannot be spawned it panics after it.  A handler thread that has
\* panicked serves no signal any more.
HandlerRun ==
    /\ alive
    /\ ~handlerDead
    /\ pending > 0
    /\ pending' = pending - 1
    /\ \E outcome \in {"ok", "print_panic", "spawn_panic"} :
          /\ handlerDead' = (outcome # "ok")
          /\ IF outcome = "print_panic"
             THEN UNCHANGED flagVars
             ELSE /\ running' = FlagAfterHandler(running)
                  /\ deactivateCalls' = deactivateCalls + 1
          /\ timers' = IF outcome = "ok"
                       THEN TimersAfterArm(timers, GracePeriod)
                       ELSE timers
    /\ UNCHANGED <<handlerInstalled, sigCount>>
    /\ UNCHANGED <<sleepRem, elapsed, unseen, joinWait>>
    /\ UNCHANGED mainVars
    /\ UNCHANGED serverVars
    /\ UNCHANGED exitVars

\* The sleep of the earliest forced-exit thread is over: println! and
\* process::exit(0).  When the write of the println! fails the thread panics
\* and the process goes on.
ForcedExit ==
    /\ alive
    /\ timers # <<>>
    /\ Head(timers) = 0
    /\ \E printed \in BOOLEAN :
          IF printed
          THEN ProcessEnds("forced")
          ELSE /\ timers' = Tail(timers)
               /\ UNCHANGED <<pending, sleepRem, elapsed, unseen, joinWait>>
               /\ UNCHANGED exitVars
    /\ UNCHANGED handlerVars
    /\ UNCHANGED flagVars
    /\ UNCHANGED mainVars
    /\ UNCHANGED serverVars

\* ------------------------------------------------------- the server thread

\* The server thread panics before bind: Runtime::new().unwrap(), or one of
\* the two println! of start_http_server when its write fails.
ServerPanic ==
    /\ alive
    /\ srv = "starting"
    /\ srv' = "panicked"
    /\ UNCHANGED <<srvSignalled, srvFailed, bindFailAt, watcher>>
    /\ UNCHANGED flagVars
    /\ UNCHANGED handlerVars
    /\ UNCHANGED liveVars
    /\ UNCHANGED mainVars
    /\ UNCHANGED exitVars

\* HttpServer::new(..).bind("127.0.0.1:8080") succeeds: the server runs,
\* listening for signals too, and the monitor task is spawned.
ServerBindOk ==
    /\ alive
    /\ srv = "starting"
    /\ srv' = "serving"
    /\ watcher' = "poll"
    /\ UNCHANGED <<srvSignalled, srvFailed, bindFailAt>>
    /\ UNCHANGED flagVars
    /\ UNCHANGED handlerVars
    /\ UNCHANGED liveVars
    /\ UNCHANGED mainVars
    /\ UNCHANGED exitVars

\* Mutant of FlagAfterBindFail: the error path clears the flag.
FlagAfterBindFail_Cleared(flag) == FALSE

\* The flag after the error path of lines 211-213, which does not touch it.
FlagAfterBindFail(flag) == flag

\* bind fails: start_http_server returns the error through the ?, the thread
\* prints "HTTP server error" with eprintln! and ends, or panics when that
\* write fails.  No monitor task was spawned.
ServerBindFail ==
    /\ alive
    /\ srv = "starting"
    /\ \E reported \in BOOLEAN :
          srv' = IF reported THEN "done" ELSE "panicked"
    /\ bindFailAt' = runs
    /\ running' = FlagAfterBindFail(running)
    /\ UNCHANGED <<srvSignalled, srvFailed, watcher>>
    /\ UNCHANGED deactivateCalls
    /\ UNCHANGED handlerVars
    /\ UNCHANGED liveVars
    /\ UNCHANGED mainVars
    /\ UNCHANGED exitVars

\* Mutant of MonitorLoops: the loop condition is inverted.
MonitorLoops_Inverted(flag) == ~flag

\* The condition of the monitor task's while running.load(Ordering::SeqCst).
MonitorLoops(flag) == flag

\* The monitor task's loop condition: while running.load(..) { sleep }, and
\* after the loop the println! and the stop request server_handle.stop(true).
\* When the write of the println! fails the task panics before the request.
\* (The println! after the request ends the task either way.)
WatcherPoll ==
    /\ alive
    /\ watcher = "poll"
    /\ IF MonitorLoops(running)
       THEN /\ watcher' = "sleep"
            /\ sleepRem' = PollInterval
       ELSE /\ \E printed \in BOOLEAN :
                  watcher' = IF printed THEN "stopping" ELSE "panicked"
            /\ UNCHANGED sleepRem
    /\ UNCHANGED <<srv, srvSignalled, srvFailed, bindFailAt>>
    /\ UNCHANGED flagVars
    /\ UNCHANGED handlerVars
    /\ UNCHANGED <<pending, timers, elapsed, unseen, joinWait>>
    /\ UNCHANGED mainVars
    /\ UNCHANGED exitVars

\* The monitor task's sleep is over.
WatcherWake ==
    /\ alive
    /\ watcher = "sleep"
    /\ sleepRem = 0
    /\ watcher' = "poll"
    /\ UNCHANGED <<srv, srvSignalled, srvFailed, bindFailAt>>
    /\ UNCHANGED flagVars
    /\ UNCHANGED handlerVars
    /\ UNCHANGED liveVars
    /\ UNCHANGED mainVars
    /\ UNCHANGED exitVars

\* Mutant of ServerCanEnd: the server ends without any cause.
ServerCanEnd_Spontaneous(task, signalled, failed) == TRUE

\* What makes server.await return: the stop the monitor task requested, a
\* signal the server's own listener has seen, or an error of the server
\* itself (failed), with which it returns an Err.
ServerCanEnd(task, signalled, failed) ==
    task = "stopping" \/ signalled \/ failed

\* The monitor task once the runtime is dropped: returned after its stop
\* request, panicked before, or dropped in its loop.
EndedTask(task) ==
    CASE task = "stopping" -> "done"
      [] task = "panicked" -> "panicked"
      [] OTHER -> "dropped"

\* server.await returns: with Ok(()) once the stop has completed, or with an
\* Err when the server has failed, which the server thread prints with
\* eprintln! (lines 211-213), panicking when that write fails.  block_on
\* returns, the runtime is dropped with the monitor task, and the server
\* thread ends.
ServerStopped(failed) ==
    /\ alive
    /\ srv = "serving"
    /\ ServerCanEnd(watcher, srvSignalled, failed)
    /\ srvFailed' = failed
    /\ \E reported \in BOOLEAN :
          /\ ~failed => reported
          /\ srv' = IF reported THEN "done" ELSE "panicked"
    /\ watcher' = EndedTask(watcher)
    /\ UNCHANGED <<srvSignalled, bindFailAt>>
    /\ UNCHANGED flagVars
    /\ UNCHANGED handlerVars
    /\ UNCHANGED liveVars
    /\ UNCHANGED mainVars
    /\ UNCHANGED exitVars

\* ------------------------------------------------------------------- time

Dec(n) == IF n > 0 THEN n - 1 ELSE 0

\* 100 ms pass.  A sleep that is over ends before more time passes, and so do
\* the dispatch of a queued signal to a live handler thread and the monitor
\* task's load of the flag.
Tick ==
    /\ alive
    /\ handlerDead \/ pending = 0
    /\ timers # <<>> => Head(timers) > 0
    /\ watcher = "sleep" => sleepRem > 0
    /\ watcher # "poll"
    /\ timers' = [i \in 1..Len(timers) |-> timers[i] - 1]
    /\ sleepRem' = Dec(sleepRem)
    /\ elapsed' = IF sigCount > 0 /\ elapsed < ElapsedCap
                  THEN elapsed + 1
                  ELSE elapsed
    /\ unseen' = IF ~running /\ watcher = "sleep" /\ unseen < UnseenCap
                 THEN unseen + 1
                 ELSE unseen
    /\ joinWait' = IF pc = "join" /\ sigCount = 0 /\ joinWait < ElapsedCap
                   THEN joinWait + 1
                   ELSE joinWait
    /\ UNCHANGED pending
    /\ UNCHANGED handlerVars
    /\ UNCHANGED serverVars
    /\ UNCHANGED flagVars
    /\ UNCHANGED mainVars
    /\ UNCHANGED exitVars

\* ------------------------------------------------------------ specification

MainStep ==
    \/ Bootstrap
    \/ SetHandler
    \/ SpawnServer
    \/ LoopCheck
    \/ Prompt
    \/ ReadLine
    \/ ExecStart
    \/ ExecWait
    \/ Report
    \/ ShutdownStore
    \/ Join
    \/ Farewell

Next ==
    \/ MainStep
    \/ Interrupt
    \/ HandlerRun
    \/ ForcedExit
    \/ ServerPanic
    \/ ServerBindOk
    \/ ServerBindFail
    \/ WatcherPoll
    \/ WatcherWake
    \/ \E failed \in BOOLEAN : ServerStopped(failed)
    \/ Tick

Spec == Init /\ [][Next]_vars

\* The runs in which no interrupt signal is delivered.
NextCoop ==
    \/ MainStep
    \/ ServerPanic
    \/ ServerBindOk
    \/ ServerBindFail
    \/ WatcherPoll
    \/ WatcherWake
    \/ \E failed \in BOOLEAN : ServerStopped(failed)
    \/ Tick

\* Those runs under fair scheduling: a thread that can take a step takes it,
\* a sleep ends, and a requested graceful stop completes.  Nothing is
\* assumed of the operator (ReadLine), of the loop before the shutdown tail,
\* or of a failure of the server.
FairCoop ==
    /\ Init
    /\ [][NextCoop]_vars
    /\ WF_vars(ShutdownStore)
    /\ WF_vars(Join)
    /\ WF_vars(Farewell)
    /\ WF_vars(ServerPanic \/ ServerBindOk \/ ServerBindFail)
    /\ WF_vars(WatcherPoll)
    /\ WF_vars(WatcherWake)
    /\ WF_vars(ServerStopped(FALSE))
    /\ WF_vars(Tick)

\* ------------------------------------------------------------------ claims

\* The buffer, trimmed and compared without regard to case, is the exit
\* keyword.
IsExitInput(input) == ToLower(Trim(input)) = ExitKeyword

\* No buffer of seq is the exit keyword.
NonExit(seq) == \A i \in 1..Len(seq) : ~IsExitInput(seq[i])

\* The buffers of seq that are not empty once trimmed.
NonEmptyInputs(seq) == SelectSeq(seq, LAMBDA x : Trim(x) # <<>>)

\* The latest buffer of seq that is not empty once trimmed, trimmed; the
\* default test path when there is none.
LastNonEmptyTrimmed(seq) ==
    LET ne == NonEmptyInputs(seq)
    IN  IF ne = <<>> THEN DefaultTestPath ELSE Trim(ne[Len(ne)])

\* The main thread's positions after the loop (the Stopped state and the
\* return from main).
Stopped == {"shutdown", "join", "farewell", "exited"}

\* The main thread's positions inside the loop.
InLoop == {"loop_check", "prompt", "read", "run", "wait", "report"}

\* C1: once an interrupt has been delivered, the process does not live on
\* for more than the grace period plus one polling interval, whatever the
\* main thread and the server thread are doing.
C1_BoundedShutdown ==
    (alive /\ sigCount > 0) => elapsed <= GracePeriod + PollInterval

\* C2: the flag starts active and, once inactive, no step of any thread makes
\* it active again.
C2_FlagMonotonic ==
    /\ running = TRUE
    /\ [][~running => ~running']_vars

\* C2 witness: the flag is inactive after the handler and the main thread
\* have both stored to it, and the process still runs.
C2_Witness ==
    /\ alive
    /\ ~running
    /\ Len(timers) >= 1
    /\ deactivateCalls = 2
    /\ pc = "join"

\* C3: a read that returns the exit keyword (trimmed, any case) takes the
\* main thread to the shutdown tail without changing the test path and without
\* calling run_coverage; and when the first input is the exit keyword
\* run_coverage is never called.
C3_ExitStops ==
    /\ [][(/\ pc = "read"
           /\ Len(inputs') > Len(inputs)
           /\ IsExitInput(inputs'[Len(inputs')]))
          => (/\ pc' = "shutdown"
              /\ target' = target
              /\ runs' = runs
              /\ rcLog' = rcLog)]_vars
    /\ []((Len(inputs) >= 1 /\ IsExitInput(inputs[1])) => runs = 0)

\* C3 witness: " Exit" was the first input and the main thread is in the
\* shutdown tail with no run_coverage call made.
C3_Witness ==
    /\ inputs = <<InputExit>>
    /\ pc = "shutdown"
    /\ runs = 0
    /\ target = DefaultTestPath

\* C4: a read that ends with the end of the input stream or with an error
\* takes the main thread to the shutdown tail without calling run_coverage.
C4_StreamEndStops ==
    [][(pc = "read" /\ pc' # pc /\ readKind' \in {"eof", "error"})
       => (pc' = "shutdown" /\ runs' = runs)]_vars

\* C5: the step in which bind fails is a step of the server thread alone: it
\* ends that thread without a monitor task and changes neither the flag nor
\* the main thread's position and test path, nor ends the process; and once
\* bind has failed the flag is still active unless the handler or the main
\* thread has stored false.
C5_BindFailureTolerated ==
    [][/\ (bindFailAt = -1 /\ bindFailAt' # -1)
          => (/\ running' = running
              /\ pc' = pc
              /\ target' = target
              /\ runs' = runs
              /\ alive' = alive)
       /\ bindFailAt' # -1
          => (/\ srv' \in {"done", "panicked"}
              /\ watcher' = "none"
              /\ deactivateCalls' = 0 => running')]_vars

\* C5 witness: after bind had failed, a command was read and run_coverage
\* completed it, with the flag still active.
C5_Witness ==
    /\ bindFailAt >= 0
    /\ runs > bindFailAt
    /\ pc = "report"
    /\ rcResult = "ok"
    /\ running
    /\ alive

\* C6 as stated: after iteration i of inputs that are not the exit keyword,
\* the test path is the i-th non-empty input, trimmed.  (Stated for lines
\* the operator typed; the end of the input stream is left out.)
C6_Original ==
    (/\ NonExit(inputs)
     /\ Len(inputs) >= 1
     /\ \A i \in 1..Len(inputs) : inputs[i] # InputEof)
    => (/\ Len(NonEmptyInputs(inputs)) >= Len(inputs)
        /\ target = Trim(NonEmptyInputs(inputs)[Len(inputs)]))

\* C6 amended: after iteration i of inputs that are not the exit keyword, the
\* test path is the latest of the first i inputs that is not empty once
\* trimmed, trimmed, and the default "." when there is none.
C6_TargetIsLastNonEmpty ==
    NonExit(inputs) => target = LastNonEmptyTrimmed(inputs)

\* C6 witness: " a" then an empty line were read; the test path is "a" and
\* run_coverage has been called for the second iteration.
C6_Witness ==
    /\ inputs = <<InputA, InputEmpty>>
    /\ target = <<"a">>
    /\ runs = 2
    /\ pc = "report"

\* C7: run_coverage executes the steps in order, a step only after every
\* earlier step has succeeded, and when it reports a failure the step
\* announced last is the one that failed and no later step was executed.
C7_StopsAtFirstFailure ==
    /\ rcLog # <<>> => Len(rcLog) <= Len(CmdParts(target))
    /\ \A i \in 1..Len(rcLog) : rcLog[i].idx = i
    /\ \A i \in 1..(Len(rcLog) - 1) : rcLog[i].status = "success"
    /\ pc \in {"run", "wait"} => rcIdx = Len(rcLog) + 1
    /\ rcResult \in {"failed", "error"}
       => (/\ rcLog # <<>>
           /\ rcLog[Len(rcLog)].status # "success"
           /\ rcLog[Len(rcLog)].idx = rcIdx
           /\ pc \in {"report", "exited"})
    /\ rcResult = "ok"
       => (/\ Len(rcLog) = Len(CmdParts(target))
           /\ rcLog[Len(rcLog)].status = "success")

\* C7 witness: of the two steps "A && B", A exited with a non-zero status,
\* the failure is reported and B was not executed.
C7_Witness ==
    /\ pc = "report"
    /\ rcResult = "failed"
    /\ Len(CmdParts(target)) = 2
    /\ rcLog = <<[idx |-> 1, status |-> "nonzero"]>>

\* C8: a step of run_coverage that fails changes neither the test path nor
\* the flag nor ends the process; the return from a failed run_coverage goes
\* back to the loop condition with the test path and the flag as they were;
\* and from the loop condition with the flag active the main thread prompts.
C8_FailureKeepsLoop ==
    [][/\ (pc \in {"run", "wait"} /\ rcResult' \in {"failed", "error"})
          => (pc' = "report" /\ target' = target /\ running' = running /\ alive')
       /\ (pc = "report" /\ rcResult \in {"failed", "error"} /\ pc' # pc)
          => (/\ pc' = "loop_check"
              /\ target' = target
              /\ running' = running
              /\ alive')
       /\ (pc = "loop_check" /\ running /\ pc' # pc)
          => (pc' = "prompt" /\ alive')]_vars

\* C9: after n >= 1 stores of false, by the handler or by the main thread in
\* any order, the flag is inactive, as after one.
C9_DeactivateIdempotent ==
    deactivateCalls >= 1 => running = FALSE

\* C9 witness: the handler and the main thread have both stored false, and
\* the monitor task has read the flag as inactive.
C9_Witness ==
    /\ deactivateCalls >= 2
    /\ Len(timers) = 1
    /\ pc = "join"
    /\ watcher = "stopping"
    /\ ~running

\* C10: while the flag is inactive no step calls run_coverage, also not the
\* read of a line that arrives after the interrupt.  (Stated for lines the
\* operator typed; the end of the input stream is left out.)
C10_NoNewWorkAfterCancel ==
    [][(~running /\ readKind' = "line") => runs' = runs]_vars

\* C11: when no interrupt has been delivered, the main thread's wait for the
\* server thread to join lasts no longer than the grace period.
C11_JoinBounded ==
    (alive /\ pc = "join" /\ sigCount = 0) => joinWait <= GracePeriod

\* C12: once the server thread has been spawned, the process ends only by
\* the return of Ok(()) after the shutdown tail (with the store of false
\* made) or by the forced exit.
C12_ExitPaths ==
    (~alive /\ srv # "unspawned")
    => (/\ exitPath \in {"main_ok", "forced"}
        /\ exitPath = "main_ok" => (pc = "exited" /\ ~running))

\* C13 as stated: at most one forced-exit timer is ever armed.
C13_SingleTimer ==
    Len(timers) <= 1

\* C13 amended: a run of the handler arms one more forced-exit timer with
\* the full grace period and leaves the earlier ones as they are; no step
\* postpones a timer; a timer goes only when its sleep is over or with the
\* process; and there are never more timers and queued signals than
\* interrupts delivered.
C13_TimerPerSignal ==
    /\ [](Len(timers) + pending <= sigCount)
    /\ [][/\ Len(timers') > Len(timers)
             => (/\ timers' = Append(timers, GracePeriod)
                 /\ pending' = pending - 1
                 /\ ~running')
          /\ Len(timers') = Len(timers)
             => \A i \in 1..Len(timers) : timers'[i] <= timers[i]
          /\ Len(timers') < Len(timers)
             => \/ ~alive'
                \/ (Head(timers) = 0 /\ timers' = Tail(timers))]_vars

\* C13 witness: two interrupts have been served and two forced-exit timers
\* are pending, the second armed after the first had started its sleep.
C13_Witness ==
    /\ alive
    /\ sigCount = 2
    /\ pending = 0
    /\ Len(timers) = 2
    /\ timers[1] < timers[2]

\* C14 as stated: whenever the server has been asked to stop, by the monitor
\* task or otherwise, the flag is inactive.
C14_Original ==
    (watcher \in {"stopping", "done"} \/ srvSignalled) => ~running

\* C14 amended: the monitor task requests the stop only from its load of the
\* flag, with the flag read inactive; once it has requested the stop it never
\* polls again, and once it has returned it stays so; and whenever the
\* monitor task has requested the stop the flag is inactive.
C14_StopOnlyAfterInactive ==
    [][/\ (watcher' = "stopping" /\ watcher # "stopping")
          => (watcher = "poll" /\ ~running)
       /\ watcher = "stopping" => watcher' \in {"stopping", "done"}
       /\ watcher = "done" => watcher' = "done"
       /\ watcher' \in {"stopping", "done"} => ~running']_vars

\* C14 witness: the monitor task has requested the stop of the serving
\* server, with the flag inactive.
C14_Witness ==
    /\ alive
    /\ srv = "serving"
    /\ ~srvSignalled
    /\ watcher = "stopping"
    /\ ~running

\* C15: the monitor task never sleeps for more than one polling interval
\* with the flag inactive, and at the load that follows, with the server
\* still serving, it requests the stop (unless the process has ended).
C15_NoMissedWakeup ==
    [][/\ unseen' <= PollInterval
       /\ (alive' /\ ~running' /\ watcher' = "sleep")
          => sleepRem' <= PollInterval - unseen'
       /\ (/\ watcher = "poll"
           /\ ~running
           /\ watcher' # watcher
           /\ srv' = "serving"
           /\ alive')
          => watcher' = "stopping"]_vars

\* C16 as stated: the server thread has ended only if the graceful stop has
\* completed, and never with the flag active.
C16_Original ==
    srv = "done" => (watcher = "done" /\ ~running)

\* C16 amended: when bind succeeded, the server has not failed and no signal
\* has reached the server's own listener, the server thread has ended
\* (without a panic) only if the monitor task read the flag inactive,
\* requested the graceful stop, and the stop completed.
C16_ExitAfterStop ==
    (srv = "done" /\ bindFailAt = -1 /\ ~srvSignalled /\ ~srvFailed)
    => (watcher = "done" /\ ~running)

\* C16 witness: bind had succeeded, the server has not failed, no signal has
\* reached it, and the server thread has ended while the main thread waits in
\* the joins.
C16_Witness ==
    /\ alive
    /\ srv = "done"
    /\ bindFailAt = -1
    /\ ~srvSignalled
    /\ ~srvFailed
    /\ pc = "join"

\* C17: from the loop condition with the flag inactive the main thread goes
\* to the shutdown tail without a prompt, a read or a run_coverage call; and
\* after the loop it never goes back into it, reads, changes the test path or
\* calls run_coverage.
C17_StoppedAbsorbing ==
    [][/\ (pc = "loop_check" /\ ~running /\ pc' # pc)
          => (/\ pc' = "shutdown"
              /\ inputs' = inputs
              /\ target' = target
              /\ runs' = runs)
       /\ pc \in Stopped
          => (/\ pc' \in Stopped
              /\ inputs' = inputs
              /\ readKind' = readKind
              /\ target' = target
              /\ runs' = runs)]_vars

\* C17 witness: the flag was inactive at the first loop condition: the main
\* thread is in the shutdown tail and nothing was read or run.
C17_Witness ==
    /\ alive
    /\ pc = "shutdown"
    /\ ~running
    /\ readKind = "none"
    /\ inputs = <<>>
    /\ runs = 0

\* C18: a read that returns a buffer other than the exit keyword updates the
\* test path by that buffer (a buffer that is empty once trimmed leaves it as
\* it was) and then calls run_coverage once, with the command built from the
\* updated test path; and no other step calls run_coverage.
C18_RunOncePerIteration ==
    [][/\ (/\ pc = "read"
           /\ Len(inputs') > Len(inputs)
           /\ ~IsExitInput(inputs'[Len(inputs')]))
          => (/\ target' = LastNonEmptyTrimmed(<<target, inputs'[Len(inputs')]>>)
              /\ Trim(inputs'[Len(inputs')]) = <<>> => target' = target
              /\ runs' = runs + 1
              /\ cmd' = FormatCmd(target'))
       /\ runs' # runs => (pc = "read" /\ runs' = runs + 1)
       /\ pc' \in {"run", "wait", "report"} => cmd' = FormatCmd(target')]_vars

\* C19 as stated: the server thread is started before the handler is
\* installed, and the handler is installed before the first prompt.
C19_Original ==
    /\ handlerInstalled => srv # "unspawned"
    /\ pc \in InLoop => handlerInstalled

\* C19 amended: the handler is installed before the server thread is
\* started, and both before the loop's first prompt.
C19_HandlerThenServer ==
    /\ srv # "unspawned" => handlerInstalled
    /\ pc \in InLoop => (handlerInstalled /\ srv # "unspawned")

\* C19 witness: the main thread prompts for the first time, with the handler
\* installed and the server thread started.
C19_Witness ==
    /\ alive
    /\ pc = "prompt"
    /\ inputs = <<>>
    /\ handlerInstalled
    /\ srv = "starting"

\* C20: in a run without interrupt, under fair scheduling and with a
\* requested graceful stop completing, once the main thread has left the loop
\* the process ends; and the farewell is never reached before the server
\* thread has ended.
C20_CoopShutdownTerminates ==
    /\ (pc = "shutdown") ~> ~alive
    /\ []((pc = "farewell" \/ exitPath = "main_ok")
          => srv \in {"done", "panicked"})

====
